---------------------------- MODULE Spec2Model ----------------------------
(***************************************************************************)
(* A model of the mrz-scan segmentation-and-classification pipeline:       *)
(*   - quickSelect        (build/lib/medianQuickSelect.js)                 *)
(*   - groupRoisPerLine   (build/lib, same file, second half)              *)
(*   - getDescriptors, train, setModelPaths, getFilePath, applyModel,      *)
(*     createModel        (build/svm.js, src/svm.js, index.js copy)        *)
(*   - mrzOcr             (build/internal/mrzOcr.js)                       *)
(*   - detectAndParseMrz  (build/detect-and-parse.js)                      *)
(* Every component has its own specification (SpecQS, SpecGroup, ...): the *)
(* variables of the components that are not running keep their idle value. *)
(* JavaScript arrays are 0-indexed; the model keeps the code's indices and *)
(* reads a[i] as At(a, i).                                                 *)
(***************************************************************************)
EXTENDS Integers, Sequences, FiniteSets, TLC

(***************************************************************************)
(* Bounds of the model.                                                    *)
(***************************************************************************)
\* longest array handed to quickSelect
MaxLen == 5
\* array elements are 0..MaxVal
MaxVal == 2

\* most regions handed to groupRoisPerLine
MaxRois == 3

\* most images handed to getDescriptors in one batch
MaxBatch == 3

\* most training samples handed to train
MaxLetters == 3

\* most lines getLinesFromImage hands to mrzOcr
MaxLines == 4

\* what JavaScript yields for a read outside the array (undefined); every
\* comparison against it is false
Undefined == -1
\* Math.round(0 / 0 / 2): the tolerance computed for an empty input
NaN == -2
\* Math.max.apply(null, []) and Math.min.apply(null, [])
NegInfinity == -1000000
PosInfinity == 1000000

VARIABLES
  \* ---- quickSelect ----
  arr,      \* the array, mutated in place
  arr0,     \* the contents of arr at the call
  low, high, median, ll, hh,   \* the locals of quickSelect
  qpc,      \* position in quickSelect
  qret,     \* the returned value
  \* ---- groupRoisPerLine ----
  rois,         \* the argument: a sequence of regions [minX, minY, height]
  allowedShift, \* the vertical tolerance, line 43
  lines,        \* the lines built so far: [x, y, rois], rois holding the
                \* positions (1-based) of the member regions in the input
  gi,           \* position of the region the for-of loop takes next
  gpc,          \* position in groupRoisPerLine
  \* ---- getDescriptors ----
  images,       \* the argument: a sequence of images [height, hog]
  result,       \* the descriptors built so far
  maxHeight, minHeight,
  di,           \* the image the running loop takes next (0-based, as i)
  dpc,          \* position in getDescriptors
  \* ---- train ----
  letters,      \* the argument: a sequence of samples [descriptor, label]
  SVMOptions,   \* the argument: the caller's options, a function from the
                \* keys it holds to their values
  tpc,          \* position in train
  tret,         \* what train returned
  \* ---- the model store: setModelPaths, getFilePath, applyModel, createModel
  copy,         \* the copy of the svm module the process has loaded: "build"
                \* (build/svm.js, the one the package entry point requires),
                \* "src" (src/svm.js) or "index" (the copy inside index.js)
  env,          \* process.env: MRZ_DESCRIPTORS_PATH and MRZ_MODEL_PATH
  externalModelPaths,  \* the module variable setModelPaths assigns
  files,        \* the file system: what each path holds
  ipc,          \* position of the applyModel / createModel invocation
  descriptorsPath, modelPath,  \* its locals, from getFilePath(); gone
                               \* (Unset) when it has ended
  ioLog,        \* the file operations it has performed, in order
  outcome,      \* how the last finished call ended
  \* ---- mrzOcr ----
  segLines,     \* what getLinesFromImage(image) returned as lines
  olines,       \* the local `lines`
  orois,        \* the local `rois`: one entry per kept region
  calls,        \* the batches handed to predictImages, one per call
  ocrResult,    \* the line strings, each a sequence of UTF-16 code units
  opc,          \* position in mrzOcr
  \* ---- detectAndParseMrz ----
  buffer,       \* the argument: the document image
  options,      \* the argument: the caller's options
  original,     \* the local read from getOptions(options)
  spc,          \* position in detectAndParseMrz
  caught,       \* the error the catch clause received
  consoleLog,   \* what console.log has printed
  settled       \* how the promise detectAndParseMrz returned has settled

qsVars == <<arr, arr0, low, high, median, ll, hh, qpc, qret>>

groupVars == <<rois, allowedShift, lines, gi, gpc>>

descVars == <<images, result, maxHeight, minHeight, di, dpc>>
trainVars == <<letters, SVMOptions, tpc, tret>>
ocrVars == <<segLines, olines, orois, calls, ocrResult, opc>>
scanVars == <<buffer, options, original, spc, caught, consoleLog, settled>>
svmVars == <<copy, env, externalModelPaths, files, ipc, descriptorsPath,
             modelPath, ioLog, outcome>>

vars == <<arr, arr0, low, high, median, ll, hh, qpc, qret,
          rois, allowedShift, lines, gi, gpc,
          images, result, maxHeight, minHeight, di, dpc,
          letters, SVMOptions, tpc, tret,
          copy, env, externalModelPaths, files, ipc, descriptorsPath,
          modelPath, ioLog, outcome,
          segLines, olines, orois, calls, ocrResult, opc,
          buffer, options, original, spc, caught, consoleLog, settled>>

\* what each component leaves alone
notQS == <<groupVars, descVars, trainVars, svmVars, ocrVars, scanVars>>
notGroup == <<qsVars, descVars, trainVars, svmVars, ocrVars, scanVars>>
notDesc == <<qsVars, groupVars, trainVars, svmVars, ocrVars, scanVars>>
notTrain == <<qsVars, groupVars, descVars, svmVars, ocrVars, scanVars>>
notSvm == <<qsVars, groupVars, descVars, trainVars, ocrVars, scanVars>>
notOcr == <<qsVars, groupVars, descVars, trainVars, svmVars, scanVars>>
notScan == <<qsVars, groupVars, descVars, trainVars, svmVars, ocrVars>>

\* the idle values of a component that is not running
QSOff ==
  /\ arr = <<>> /\ arr0 = <<>>
  /\ low = 0 /\ high = 0 /\ median = 0 /\ ll = 0 /\ hh = 0
  /\ qpc = "off" /\ qret = Undefined

GroupOff ==
  /\ rois = <<>> /\ allowedShift = 0 /\ lines = <<>> /\ gi = 0 /\ gpc = "off"

DescOff ==
  /\ images = <<>> /\ result = <<>> /\ maxHeight = 0 /\ minHeight = 0
  /\ di = 0 /\ dpc = "off"

TrainOff ==
  /\ letters = <<>> /\ SVMOptions = <<>> /\ tpc = "off" /\ tret = <<>>

SvmOff ==
  /\ copy = "off" /\ env = <<>> /\ externalModelPaths = <<>> /\ files = <<>>
  /\ ipc = "off" /\ descriptorsPath = <<>> /\ modelPath = <<>>
  /\ ioLog = <<>> /\ outcome = <<>>

OcrOff ==
  /\ segLines = <<>> /\ olines = <<>> /\ orois = <<>> /\ calls = <<>>
  /\ ocrResult = <<>> /\ opc = "off"

ScanOff ==
  /\ buffer = <<>> /\ options = <<>> /\ original = <<>> /\ spc = "off"
  /\ caught = <<>> /\ consoleLog = <<>> /\ settled = <<>>

Range(s) == {s[i] : i \in 1..Len(s)}
Abs(n) == IF n < 0 THEN 0 - n ELSE n


(***************************************************************************)
(* groupRoisPerLine                                                        *)
(***************************************************************************)
\* the regions of the model: minY, height and minX from small sets
YValues == {0, 1, 2, 3, 4, 7}
HeightValues == {2, 4}
XValues == {0, 5}
Regions == [minX : XValues, minY : YValues, height : HeightValues]

\* roisCopy.reduce((a, b) => a + b.height, 0)
RECURSIVE SumHeights(_)
SumHeights(rs) ==
  IF rs = <<>> THEN 0 ELSE rs[1].height + SumHeights(Tail(rs))

\* Math.round(total / n / 2) for integers total >= 0 and n > 0: halves round
\* up, so it is floor(total / (2 n) + 1/2)
RoundHalfMean(total, n) == (total + n) \div (2 * n)

\* lines 42-43; 0 / 0 is NaN for an empty input
AllowedShift(rs) ==
  IF Len(rs) = 0 THEN NaN ELSE RoundHalfMean(SumHeights(rs), Len(rs))

\* mutant of WithinShift: the boundary itself is outside the tolerance
WithinShift_Strict(lineY, y, shift) == shift # NaN /\ Abs(lineY - y) < shift

\* line 53: Math.abs((line.y || 0) - y) <= allowedShift
WithinShift(lineY, y, shift) == shift # NaN /\ Abs(lineY - y) <= shift

\* mutant of FirstMatch: the closest line within the tolerance is taken
FirstMatch_Closest(ls, y, shift) ==
  LET m == {k \in 1..Len(ls) : WithinShift(ls[k].y, y, shift)}
  IN  IF m = {} THEN 0
      ELSE CHOOSE k \in m :
             \A j \in m : \/ Abs(ls[k].y - y) < Abs(ls[j].y - y)
                          \/ (Abs(ls[k].y - y) = Abs(ls[j].y - y) /\ k <= j)

\* lines 52-57: the first line, in creation order, within the tolerance; 0 when
\* there is none (currentLine stays undefined)
FirstMatch(ls, y, shift) ==
  LET m == {k \in 1..Len(ls) : WithinShift(ls[k].y, y, shift)}
  IN  IF m = {} THEN 0 ELSE CHOOSE k \in m : \A j \in m : k <= j

\* mutant of Assign: the region that starts a line is not pushed to it
Assign_NewLineEmpty(ls, k, i, roi) ==
  IF k = 0
    THEN Append(ls, [x |-> roi.minX, y |-> roi.minY, rois |-> <<>>])
    ELSE [ls EXCEPT ![k] = [x |-> roi.minX, y |-> roi.minY,
                            rois |-> Append(@.rois, i)]]

\* lines 58-66: the region at position i joins line k, or a new line when k = 0
Assign(ls, k, i, roi) ==
  IF k = 0
    THEN Append(ls, [x |-> roi.minX, y |-> roi.minY, rois |-> <<i>>])
    ELSE [ls EXCEPT ![k] = [x |-> roi.minX, y |-> roi.minY,
                            rois |-> Append(@.rois, i)]]

\* line 68: lines.sort((a, b) => Number(a.y) - Number(b.y)); Array.prototype.sort
\* is stable, so this is an insertion behind the lines with y <= the line's y
RECURSIVE InsertLine(_, _)
InsertLine(sorted, l) ==
  IF sorted = <<>> THEN <<l>>
  ELSE IF sorted[Len(sorted)].y <= l.y THEN Append(sorted, l)
  ELSE Append(InsertLine(SubSeq(sorted, 1, Len(sorted) - 1), l),
              sorted[Len(sorted)])

\* mutant of SortLines: the lines are returned in creation order
SortLines_CreationOrder(ls) == ls

RECURSIVE SortLines(_)
SortLines(ls) ==
  IF ls = <<>> THEN <<>>
  ELSE InsertLine(SortLines(SubSeq(ls, 1, Len(ls) - 1)), ls[Len(ls)])

\* the call groupRoisPerLine(rois): lines 41-47
InitGroup ==
  /\ rois \in UNION {[1..n -> Regions] : n \in 0..MaxRois}
  /\ allowedShift = AllowedShift(rois)
  /\ lines = <<>>
  /\ gi = 1
  /\ gpc = "loop"
  /\ QSOff /\ DescOff /\ TrainOff /\ SvmOff /\ OcrOff /\ ScanOff

\* lines 48-67: one iteration of the loop over the input
GroupAssign ==
  /\ gpc = "loop"
  /\ gi <= Len(rois)
  /\ lines' = Assign(lines, FirstMatch(lines, rois[gi].minY, allowedShift),
                     gi, rois[gi])
  /\ gi' = gi + 1
  /\ UNCHANGED <<rois, allowedShift, gpc>>
  /\ UNCHANGED notGroup

\* lines 68-69: the loop is over, the lines are sorted and returned
GroupReturn ==
  /\ gpc = "loop"
  /\ gi > Len(rois)
  /\ lines' = SortLines(lines)
  /\ gpc' = "done"
  /\ UNCHANGED <<rois, allowedShift, gi>>
  /\ UNCHANGED notGroup

NextGroup ==
  \/ GroupAssign
  \/ GroupReturn

SpecGroup == InitGroup /\ [][NextGroup]_vars

(***************************************************************************)
(* Claims about groupRoisPerLine                                           *)
(***************************************************************************)
\* the lines (by position in `lines`) holding input position i, with multiplicity
Holders(i) ==
  {<<k, p>> \in (1..Len(lines)) \X (1..MaxRois + 1) :
     p <= Len(lines[k].rois) /\ lines[k].rois[p] = i}

\* C2: the returned lines partition the input: each input region is a member
\* of exactly one returned line, exactly once; no line holds a region that
\* was not in the input, and no line is empty.
C2_LinesPartitionInput ==
  gpc = "done" =>
    /\ \A i \in 1..Len(rois) : Cardinality(Holders(i)) = 1
    /\ \A k \in 1..Len(lines) :
         /\ lines[k].rois # <<>>
         /\ \A p \in 1..Len(lines[k].rois) : lines[k].rois[p] \in 1..Len(rois)

\* C2 witness: three regions were grouped into two lines, one of two regions.
C2_Witness ==
  /\ gpc = "done"
  /\ Len(rois) = 3
  /\ Len(lines) = 2
  /\ \E k \in 1..2 : Len(lines[k].rois) = 2
  /\ \A i \in 1..3 : Cardinality(Holders(i)) = 1

\* C3: the returned lines are ordered top to bottom (anchor y ascending over
\* consecutive lines), and inside each line the regions keep the relative
\* order they had in the input.
C3_LinesTopToBottom ==
  gpc = "done" =>
    /\ \A k \in 1..(Len(lines) - 1) : lines[k].y <= lines[k + 1].y
    /\ \A k \in 1..Len(lines) :
         \A p \in 1..(Len(lines[k].rois) - 1) :
           lines[k].rois[p] < lines[k].rois[p + 1]

\* C3 witness: the line created first lies below a line created later, so the
\* final sort moved it, and one line holds two regions.
C3_Witness ==
  /\ gpc = "done"
  /\ Len(lines) >= 2
  /\ lines[1].y < lines[2].y
  /\ lines[1].rois[1] > lines[2].rois[1]
  /\ \E k \in 1..Len(lines) : Len(lines[k].rois) >= 2

\* one iteration of the loop is about to take the region at position gi
TakesRegion == gpc = "loop" /\ gi <= Len(rois)
\* the region taken joined the existing line k / started a new line
Joined(k) ==
  /\ Len(lines') = Len(lines)
  /\ lines'[k].rois = Append(lines[k].rois, gi)
StartedLine ==
  /\ Len(lines') = Len(lines) + 1
  /\ lines'[Len(lines')].rois = <<gi>>
  /\ \A k \in 1..Len(lines) : lines'[k] = lines[k]
\* the distance of line k's anchor to the y of the region taken
Dist(k) == Abs(lines[k].y - rois[gi].minY)

\* C4 as stated: a region whose y differs from a line's anchor by exactly
\* allowedShift joins that line; by allowedShift + 1 it starts a new line.
C4_AsStated ==
  [][TakesRegion =>
       \A k \in 1..Len(lines) :
         /\ Dist(k) = allowedShift => Joined(k)
         /\ Dist(k) = allowedShift + 1 => StartedLine]_vars

\* C4 amended: allowedShift is the integer nearest to mean(height) / 2 (halves
\* up), the same for the whole input; a region at distance exactly allowedShift
\* from a line's anchor joins that line when no line created earlier is within
\* allowedShift; a region at distance allowedShift + 1 from a line's anchor
\* does not join that line; and it starts a new line when no line is within
\* allowedShift.
C4_ToleranceBoundary ==
  [][TakesRegion =>
       /\ allowedShift' = allowedShift
       /\ 2 * Len(rois) * allowedShift <= SumHeights(rois) + Len(rois)
       /\ SumHeights(rois) + Len(rois) < 2 * Len(rois) * (allowedShift + 1)
       /\ \A k \in 1..Len(lines) :
            /\ (Dist(k) = allowedShift /\ \A j \in 1..(k - 1) : Dist(j) > allowedShift)
                 => Joined(k)
            /\ Dist(k) = allowedShift + 1 => ~Joined(k)
       /\ (\A k \in 1..Len(lines) : Dist(k) > allowedShift) => StartedLine]_vars

\* the y of the member of line l that was its anchor when position i was taken:
\* its last member before i (Undefined when it had none yet)
AnchorBefore(l, i) ==
  LET before == {m \in Range(l.rois) : m < i}
  IN  IF before = {} THEN Undefined
      ELSE rois[CHOOSE m \in before : \A n \in before : n <= m].minY

\* C4 witness: one region joined a line whose anchor was exactly allowedShift
\* away, and another started a line when a line's anchor was allowedShift + 1
\* away, with a tolerance of 2 rounded up from 10 / 3 / 2 (heights 4, 4, 2).
C4_Witness ==
  /\ gpc = "done"
  /\ allowedShift = 2
  /\ SumHeights(rois) = 10
  /\ \E k \in 1..Len(lines) : \E p \in 1..(Len(lines[k].rois) - 1) :
       Abs(rois[lines[k].rois[p]].minY - rois[lines[k].rois[p + 1]].minY)
         = allowedShift
  /\ \E k, j \in 1..Len(lines) :
       /\ k # j
       /\ AnchorBefore(lines[j], lines[k].rois[1]) # Undefined
       /\ Abs(AnchorBefore(lines[j], lines[k].rois[1])
              - rois[lines[k].rois[1]].minY) = allowedShift + 1

\* the region most recently added to line k
LastAdded(k) == rois[lines[k].rois[Len(lines[k].rois)]]
\* the lines whose most recently added region is within allowedShift of the
\* y of the region taken
Matching ==
  {k \in 1..Len(lines) : Abs(LastAdded(k).minY - rois[gi].minY) <= allowedShift}
\* line k of the new lines is anchored at the region taken
AnchoredAtTaken(k) ==
  lines'[k].x = rois[gi].minX /\ lines'[k].y = rois[gi].minY

\* C15: groupRoisPerLine processes regions in input order and assigns each to
\* the first line, in creation order, whose current anchor y (the y of the
\* region most recently added to that line) is within allowedShift of the
\* region's y, creating a new line only when no existing line matches; after
\* every assignment the line's anchor is the (x, y) of the region just added.
C15_FirstMatchAnchorDrift ==
  [][TakesRegion =>
       /\ gi' = gi + 1
       /\ \A k \in 1..Len(lines) :
            lines[k].x = LastAdded(k).minX /\ lines[k].y = LastAdded(k).minY
       /\ Matching # {} =>
            \E k \in Matching :
              /\ \A j \in Matching : k <= j
              /\ Joined(k)
              /\ AnchoredAtTaken(k)
              /\ \A j \in (1..Len(lines)) \ {k} : lines'[j] = lines[j]
       /\ Matching = {} => (StartedLine /\ AnchoredAtTaken(Len(lines')))]_vars

\* C15 witness: the third region joined the line of the first one although the
\* line of the second one was closer.
C15_Witness ==
  /\ gpc = "done"
  /\ Len(rois) = 3
  /\ \E k, j \in 1..Len(lines) :
       /\ lines[k].rois = <<1, 3>>
       /\ lines[j].rois = <<2>>
       /\ Abs(rois[3].minY - rois[2].minY) < Abs(rois[3].minY - rois[1].minY)

\* C15 second case reached: the anchor drifted, the third region joined a line
\* whose first region is further than allowedShift away.
C15_WitnessDrift ==
  /\ gpc = "done"
  /\ Len(lines) = 1
  /\ lines[1].rois = <<1, 2, 3>>
  /\ Abs(rois[3].minY - rois[1].minY) > allowedShift
  /\ lines[1].y = rois[3].minY /\ lines[1].x = rois[3].minX

(***************************************************************************)
(* getDescriptors (build/svm.js; src/svm.js and the index.js copy are the   *)
(* same code)                                                              *)
(***************************************************************************)
\* the image heights of the model
ImageHeights == {10, 20, 30}
\* what extractHOG returns for an image: a vector of fixed length, computed
\* by the hog-features library from the pixels; the model keeps it as a field
\* of the image
HogValues == {<<0, 1>>, <<1, 0>>}
Images == [height : ImageHeights, hog : HogValues]

\* extractHOG(image), lines 56-68
extractHOG(image) == image.hog

\* Math.max.apply(null, heights), Math.min.apply(null, heights)
MaxOf(hs) ==
  IF hs = <<>> THEN NegInfinity
  ELSE CHOOSE h \in Range(hs) : \A g \in Range(hs) : g <= h
MinOf(hs) ==
  IF hs = <<>> THEN PosInfinity
  ELSE CHOOSE h \in Range(hs) : \A g \in Range(hs) : h <= g

\* mutant of BonusFeature: the division is made whatever the heights
BonusFeature_NoGuard(h, mn, mx) == <<h - mn, mx - mn>>

\* lines 82-85: the bonus feature, the quotient num / den kept as <<num, den>>
BonusFeature(h, mn, mx) ==
  IF mn # mx THEN <<h - mn, mx - mn>> ELSE <<1, 1>>

\* the call getDescriptors(images): line 72
InitDesc ==
  /\ images \in UNION {[1..n -> Images] : n \in 0..MaxBatch}
  /\ result = <<>>
  /\ maxHeight = 0 /\ minHeight = 0
  /\ di = 0
  /\ dpc = "hog"
  /\ QSOff /\ GroupOff /\ TrainOff /\ SvmOff /\ OcrOff /\ ScanOff

\* lines 73-75, one iteration: result.push(extractHOG(image))
DescPushHog ==
  /\ dpc = "hog"
  /\ di < Len(images)
  /\ result' = Append(result, extractHOG(images[di + 1]))
  /\ di' = di + 1
  /\ UNCHANGED <<images, maxHeight, minHeight, dpc>>
  /\ UNCHANGED notDesc

\* lines 77-80: the heights of the batch, their maximum and minimum
DescMinMax ==
  /\ dpc = "hog"
  /\ di >= Len(images)
  /\ LET heights == [i \in 1..Len(images) |-> images[i].height]
     IN  /\ maxHeight' = MaxOf(heights)
         /\ minHeight' = MinOf(heights)
  /\ di' = 0
  /\ dpc' = "bonus"
  /\ UNCHANGED <<images, result>>
  /\ UNCHANGED notDesc

\* lines 80-87, one iteration: result[i].push(bonusFeature)
DescPushBonus ==
  /\ dpc = "bonus"
  /\ di < Len(images)
  /\ result' = [result EXCEPT ![di + 1] =
                  Append(@, BonusFeature(images[di + 1].height,
                                         minHeight, maxHeight))]
  /\ di' = di + 1
  /\ UNCHANGED <<images, maxHeight, minHeight, dpc>>
  /\ UNCHANGED notDesc

\* line 88: return result
DescReturn ==
  /\ dpc = "bonus"
  /\ di >= Len(images)
  /\ dpc' = "done"
  /\ UNCHANGED <<images, result, maxHeight, minHeight, di>>
  /\ UNCHANGED notDesc

NextDesc ==
  \/ DescPushHog
  \/ DescMinMax
  \/ DescPushBonus
  \/ DescReturn

SpecDesc == InitDesc /\ [][NextDesc]_vars

(***************************************************************************)
(* Claims about getDescriptors                                             *)
(***************************************************************************)
\* the bonus feature of the i-th descriptor returned, as <<num, den>>
BonusOf(i) == result[i][Len(result[i])]
\* the quotient q = <<num, den>> equals n / d
QuotientIs(q, n, d) == q[2] # 0 /\ q[1] * d = n * q[2]

\* C5: for every batch, exactly one value is appended to each image's base
\* descriptor; it equals (height - min) / (max - min) over the heights of the
\* batch when min differs from max and 1 otherwise; it lies in [0, 1]; heights
\* 10, 20, 30 give 0, 0.5, 1; a batch of one image or of equal heights gives 1
\* for every image.
C5_BonusFeature ==
  dpc = "done" =>
    LET hs == {images[i].height : i \in 1..Len(images)}
        mn == CHOOSE h \in hs : \A g \in hs : h <= g
        mx == CHOOSE h \in hs : \A g \in hs : g <= h
    IN  /\ Len(result) = Len(images)
        /\ \A i \in 1..Len(images) :
             /\ Len(result[i]) = Len(images[i].hog) + 1
             /\ SubSeq(result[i], 1, Len(images[i].hog)) = images[i].hog
             /\ mn # mx =>
                  QuotientIs(BonusOf(i), images[i].height - mn, mx - mn)
             /\ mn = mx => QuotientIs(BonusOf(i), 1, 1)
             /\ BonusOf(i)[2] > 0
             /\ 0 <= BonusOf(i)[1] /\ BonusOf(i)[1] <= BonusOf(i)[2]
        /\ (Len(images) = 3 /\ \A i \in 1..3 : images[i].height = 10 * i) =>
             /\ QuotientIs(BonusOf(1), 0, 1)
             /\ QuotientIs(BonusOf(2), 1, 2)
             /\ QuotientIs(BonusOf(3), 1, 1)
        /\ (Len(images) = 1 \/ Cardinality(hs) = 1) =>
             \A i \in 1..Len(images) : QuotientIs(BonusOf(i), 1, 1)

\* C5 witness: the batch of heights 10, 20, 30 was described, the second
\* descriptor ending in 0.5.
C5_Witness ==
  /\ dpc = "done"
  /\ Len(images) = 3
  /\ \A i \in 1..3 : images[i].height = 10 * i
  /\ QuotientIs(BonusOf(2), 1, 2)

\* C5 second case reached: a batch of two images of equal height gave 1 twice.
C5_WitnessEqualHeights ==
  /\ dpc = "done"
  /\ Len(images) = 2
  /\ images[1].height = images[2].height
  /\ \A i \in 1..2 : QuotientIs(BonusOf(i), 1, 1)

(***************************************************************************)
(* train (build/svm.js lines 149-195; src/svm.js lines 197-238 and the      *)
(* index.js copy lines 173-215 are the same code)                          *)
(***************************************************************************)
\* An options object is a function from the keys it holds to their values;
\* the values are kept as strings.
\* Object.assign({}, a, b): the keys of both, b's value where b holds the key
Assign2(a, b) ==
  [k \in (DOMAIN a) \cup (DOMAIN b) |-> IF k \in DOMAIN b THEN b[k] ELSE a[k]]

\* lines 150-155
SVMOptionsOneClass ==
  [k \in {"type", "kernel", "nu", "quiet"} |->
     CASE k = "type" -> "ONE_CLASS"
       [] k = "kernel" -> "PRECOMPUTED"
       [] k = "nu" -> "0.5"
       [] k = "quiet" -> "true"]

\* lines 157-162
SVMNormalOptions ==
  [k \in {"type", "kernel", "gamma", "quiet"} |->
     CASE k = "type" -> "C_SVC"
       [] k = "kernel" -> "PRECOMPUTED"
       [] k = "gamma" -> "1"
       [] k = "quiet" -> "true"]

\* mutant of ForcedKernel: nothing is forced over the caller's options
ForcedKernel_None == [k \in {} |-> "PRECOMPUTED"]

\* { kernel: SVM.KERNEL_TYPES.PRECOMPUTED }
ForcedKernel == [k \in {"kernel"} |-> "PRECOMPUTED"]

\* uniq(Ytrain).length
UniqLabels(ls) == Cardinality({ls[i].label : i \in 1..Len(ls)})

\* lines 169-179: the options the classifier is made with
MergedOptions(ls, opts) ==
  IF UniqLabels(ls) = 1
    THEN Assign2(Assign2(SVMOptionsOneClass, opts), ForcedKernel)
    ELSE Assign2(Assign2(SVMNormalOptions, opts), ForcedKernel)

\* line 181: SVMOptions.type === SVM.SVM_TYPES.ONE_CLASS
OneClassFlag(opts) == "type" \in DOMAIN opts /\ opts["type"] = "ONE_CLASS"

\* the options a caller may pass: any subset of the keys, each with a value
\* other than train's default
CallerValues(k) ==
  CASE k = "type" -> {"C_SVC", "ONE_CLASS"}
    [] k = "kernel" -> {"RBF"}
    [] k = "nu" -> {"0.1"}
    [] k = "gamma" -> {"2"}
CallerOptions ==
  UNION {{o \in [ks -> {"C_SVC", "ONE_CLASS", "RBF", "0.1", "2"}] :
            \A k \in ks : o[k] \in CallerValues(k)} :
         ks \in SUBSET {"type", "kernel", "nu", "gamma"}}

\* the labels (character codes) and descriptors of the model's samples
Labels == {65, 66}
Samples == [label : Labels, descriptor : {<<0, 1>>}]

\* the call train(letters, SVMOptions, kernelOptions)
InitTrain ==
  /\ letters \in UNION {[1..n -> Samples] : n \in 0..MaxLetters}
  /\ SVMOptions \in CallerOptions
  /\ tpc = "call"
  /\ tret = <<>>
  /\ QSOff /\ GroupOff /\ DescOff /\ SvmOff /\ OcrOff /\ ScanOff

\* lines 150-194: train has no await and runs to its return
Train ==
  /\ tpc = "call"
  /\ LET merged == MergedOptions(letters, SVMOptions)
     IN  tret' = [classifier |-> [options |-> merged,
                                  labels |-> [i \in 1..Len(letters) |->
                                                letters[i].label]],
                  descriptors |-> [i \in 1..Len(letters) |->
                                     letters[i].descriptor],
                  oneClass |-> OneClassFlag(merged)]
  /\ tpc' = "done"
  /\ UNCHANGED <<letters, SVMOptions>>
  /\ UNCHANGED notTrain

NextTrain ==
  \/ Train

SpecTrain == InitTrain /\ [][NextTrain]_vars

(***************************************************************************)
(* Claims about train                                                      *)
(***************************************************************************)
\* C6: for every training set and every caller-supplied SVM options, the
\* returned oneClass flag is true when the labels hold exactly one distinct
\* value and false when they hold two or more.
C6_ModeFromLabels ==
  tpc = "done" =>
    /\ UniqLabels(letters) = 1 => tret.oneClass
    /\ UniqLabels(letters) >= 2 => ~tret.oneClass

\* C6 without caller options the flag does follow the labels: labels A, A, A
\* give true, labels A, B, A give false.
C6_WitnessDefaults ==
  /\ tpc = "done"
  /\ DOMAIN SVMOptions = {}
  /\ Len(letters) = 3
  /\ \/ letters[1].label = 65 /\ letters[2].label = 65 /\ letters[3].label = 65
          /\ tret.oneClass
     \/ letters[1].label = 65 /\ letters[2].label = 66 /\ letters[3].label = 65
          /\ ~tret.oneClass

\* the options the classifier was made with
Configured == tret.classifier.options

\* C19: whatever SVM options the caller passes to train (an explicit kernel
\* included) and whichever training mode is selected, the classifier is
\* configured with the precomputed kernel type, while the other defaults
\* (nu = 0.5 in one-class mode, gamma = 1 in multi-class mode) are used only
\* when the caller does not supply them.
C19_KernelForcedDefaultsYield ==
  tpc = "done" =>
    /\ Configured["kernel"] = "PRECOMPUTED"
    /\ \A k \in (DOMAIN SVMOptions) \ {"kernel"} :
         Configured[k] = SVMOptions[k]
    /\ (UniqLabels(letters) = 1 /\ "nu" \notin DOMAIN SVMOptions)
         => Configured["nu"] = "0.5"
    /\ (UniqLabels(letters) # 1 /\ "gamma" \notin DOMAIN SVMOptions)
         => Configured["gamma"] = "1"

\* C19 witness: the caller asked for another kernel and another nu with labels
\* of one value: the kernel is the precomputed one, nu is the caller's.
C19_Witness ==
  /\ tpc = "done"
  /\ UniqLabels(letters) = 1
  /\ "kernel" \in DOMAIN SVMOptions /\ SVMOptions["kernel"] = "RBF"
  /\ "nu" \in DOMAIN SVMOptions /\ SVMOptions["nu"] = "0.1"
  /\ Configured["kernel"] = "PRECOMPUTED"
  /\ Configured["nu"] = "0.1"

\* C19 second case reached: labels of two values, no gamma from the caller.
C19_WitnessDefaultGamma ==
  /\ tpc = "done"
  /\ UniqLabels(letters) = 2
  /\ "gamma" \notin DOMAIN SVMOptions
  /\ "kernel" \in DOMAIN SVMOptions
  /\ Configured["gamma"] = "1"

(***************************************************************************)
(* The model store: setModelPaths, getFilePath, applyModel, createModel.    *)
(* The repository holds three copies of the svm module, which differ in     *)
(* setModelPaths and getFilePath: build/svm.js (the one index.js lines 1-16 *)
(* requires and exposes), src/svm.js, and the copy in index.js lines 31-285.*)
(***************************************************************************)
\* A path is <<directory, file name>>.
\* path.join(dir, name)
Join(dir, name) == <<dir, name>>
\* undefined, and the empty string, where a path is expected
Unset == <<>>
EmptyString == <<"">>
\* JavaScript truthiness of a path value
Truthy(v) == v # Unset /\ v # EmptyString

DescriptorsName == "ESC-v2.svm.descriptors"
ModelName == "ESC-v2.svm.model"
\* const prodPath, as each copy sets it
prodPath_build == "/var/task/static/mrz-models"
prodPath_src == "/var/task/static/mrz-models"
prodPath_index == "/var/task/public/mrz-models"
\* path.join(process.cwd(), 'public/mrz-models')
localPath == "/cwd/public/mrz-models"

\* the paths of the model: what the environment names, the two pairs a caller
\* injects, and the candidates of getFilePath
EnvD == Join("/env", "descriptors")
EnvM == Join("/env", "model")
InjAD == Join("/a", "descriptors")
InjAM == Join("/a", "model")
InjBD == Join("/b", "descriptors")
InjBM == Join("/b", "model")
Pairs ==
  {<<EnvD, EnvM>>, <<InjAD, InjAM>>, <<InjBD, InjBM>>,
   <<Join(prodPath_build, DescriptorsName), Join(prodPath_build, ModelName)>>,
   <<Join(prodPath_index, DescriptorsName), Join(prodPath_index, ModelName)>>,
   <<Join(localPath, DescriptorsName), Join(localPath, ModelName)>>}
AllPaths == {pr[1] : pr \in Pairs} \cup {pr[2] : pr \in Pairs}

\* the values a caller may pass to setModelPaths
Null == [kind |-> "null", descriptors |-> Unset, model |-> Unset]
NotAnObject == [kind |-> "string", descriptors |-> Unset, model |-> Unset]
Obj(d, m) == [kind |-> "object", descriptors |-> d, model |-> m]
ArgValues ==
  {Null, NotAnObject, Obj(InjAD, InjAM), Obj(InjBD, InjBM),
   Obj(InjAD, Unset), Obj(EmptyString, InjAM)}

\* fs.existsSync(p); a read succeeds on a file that is there
Exists(p) == files[p] # "none"

\* what getFilePath gives: the two paths, or the error it throws
Found(d, m) == [found |-> TRUE, descriptors |-> d, model |-> m]
\* throw new Error('MRZ model files not found in any expected locations'):
\* `named` is the set of paths the message names
NotFound == [found |-> FALSE, descriptors |-> Unset, model |-> Unset]
NotFoundNamed == {}

\* lines 221-247 of each copy: the two file system candidates
Candidates(prodPath) ==
  IF Exists(Join(prodPath, DescriptorsName))
    THEN Found(Join(prodPath, DescriptorsName), Join(prodPath, ModelName))
  ELSE IF Exists(Join(localPath, DescriptorsName))
    THEN Found(Join(localPath, DescriptorsName), Join(localPath, ModelName))
  ELSE NotFound

\* externalModelPaths && externalModelPaths.descriptors && externalModelPaths.model
Injected ==
  /\ externalModelPaths.kind # "null"
  /\ Truthy(externalModelPaths.descriptors)
  /\ Truthy(externalModelPaths.model)

\* build/svm.js lines 218-248
getFilePath_build ==
  IF Injected
    THEN Found(externalModelPaths.descriptors, externalModelPaths.model)
    ELSE Candidates(prodPath_build)

\* src/svm.js lines 244-272
getFilePath_src ==
  IF Injected
    THEN Found(externalModelPaths.descriptors, externalModelPaths.model)
    ELSE Candidates(prodPath_src)

\* index.js lines 225-256
getFilePath_index ==
  IF Truthy(env.MRZ_DESCRIPTORS_PATH) /\ Truthy(env.MRZ_MODEL_PATH)
    THEN Found(env.MRZ_DESCRIPTORS_PATH, env.MRZ_MODEL_PATH)
  ELSE IF Injected
    THEN Found(externalModelPaths.descriptors, externalModelPaths.model)
  ELSE Candidates(prodPath_index)

getFilePath ==
  CASE copy = "build" -> getFilePath_build
    [] copy = "src" -> getFilePath_src
    [] copy = "index" -> getFilePath_index

\* src/svm.js lines 23-28: the argument setModelPaths refuses
Refused_src(models) ==
  \/ models.kind = "null"
  \/ models.kind # "object"
  \/ ~Truthy(models.descriptors)
  \/ ~Truthy(models.model)
\* build/svm.js lines 25-27 and index.js lines 55-57 refuse nothing
Refused_build(models) == FALSE
Refused_index(models) == FALSE

Refused(models) ==
  CASE copy = "build" -> Refused_build(models)
    [] copy = "src" -> Refused_src(models)
    [] copy = "index" -> Refused_index(models)

\* how a call ended: returned or threw, with the paths its error message names
\* (`arg` is the argument of a setModelPaths call, Null for the other calls)
NoCall ==
  [op |-> "none", arg |-> Null, result |-> "none", stage |-> "none", named |-> {}]
Returned(op, arg) ==
  [op |-> op, arg |-> arg, result |-> "returned", stage |-> "end", named |-> {}]
Threw(op, arg, stage, named) ==
  [op |-> op, arg |-> arg, result |-> "threw", stage |-> stage, named |-> named]

\* the file systems the model starts from: the environment's pair and the
\* injected pair /a are there or not, the injected pair /b is not there yet; a
\* candidate directory holds both files, the descriptors alone, or nothing; of
\* the two production directories only the loaded copy's is ever looked at,
\* and the environment's pair only by the index.js copy
PairStates(pr) ==
  IF pr[1][1] = "/a" THEN {"none", "both"}
  ELSE IF pr[1][1] = "/b" THEN {"none"}
  ELSE IF pr[1][1] = "/env"
    THEN (IF copy = "index" THEN {"none", "both"} ELSE {"none"})
  ELSE IF pr[1][1] = prodPath_index /\ copy # "index" THEN {"none"}
  ELSE IF pr[1][1] = prodPath_build /\ copy = "index" THEN {"none"}
  ELSE {"none", "both", "descriptors"}
FilesOf(st) ==
  [p \in AllPaths |->
     LET pr == CHOOSE q \in Pairs : p \in {q[1], q[2]}
     IN  IF st[pr] = "both" \/ (st[pr] = "descriptors" /\ p = pr[1])
           THEN "old" ELSE "none"]

EnvValues ==
  {[MRZ_DESCRIPTORS_PATH |-> Unset, MRZ_MODEL_PATH |-> Unset],
   [MRZ_DESCRIPTORS_PATH |-> EnvD, MRZ_MODEL_PATH |-> EnvM],
   [MRZ_DESCRIPTORS_PATH |-> EnvD, MRZ_MODEL_PATH |-> Unset]}

\* the module is loaded: let externalModelPaths = null
InitSvm ==
  /\ copy \in {"build", "src", "index"}
  /\ env \in EnvValues
  /\ externalModelPaths = Null
  /\ \E st \in [Pairs -> {"none", "both", "descriptors"}] :
       /\ \A pr \in Pairs : st[pr] \in PairStates(pr)
       /\ files = FilesOf(st)
  /\ ipc = "idle"
  /\ descriptorsPath = Unset /\ modelPath = Unset
  /\ ioLog = <<>>
  /\ outcome = NoCall
  /\ QSOff /\ GroupOff /\ DescOff /\ TrainOff /\ OcrOff /\ ScanOff

\* setModelPaths(models): runs to its end whenever a caller has control
SetModelPaths ==
  /\ ipc # "off"
  /\ \E models \in ArgValues :
       IF Refused(models)
         THEN /\ outcome' = Threw("setModelPaths", models, "validate", {})
              /\ UNCHANGED externalModelPaths
         ELSE /\ externalModelPaths' = models
              /\ outcome' = Returned("setModelPaths", models)
  /\ UNCHANGED <<copy, env, files, ipc, descriptorsPath, modelPath, ioLog>>
  /\ UNCHANGED notSvm

\* applyModel(Xtest), up to its first await: getFilePath() throws, or the read
\* of the descriptors file is issued
ApplyStart ==
  /\ ipc = "idle"
  /\ ioLog' = <<>>
  /\ IF getFilePath.found
       THEN /\ descriptorsPath' = getFilePath.descriptors
            /\ modelPath' = getFilePath.model
            /\ ipc' = "applyReadDescriptors"
            /\ UNCHANGED outcome
       ELSE /\ outcome' = Threw("applyModel", Null, "resolve", NotFoundNamed)
            /\ UNCHANGED <<ipc, descriptorsPath, modelPath>>
  /\ UNCHANGED <<copy, env, externalModelPaths, files>>
  /\ UNCHANGED notSvm

\* mutant of LoadError: the message names the descriptors path alone
LoadError_DescriptorsOnly == {descriptorsPath}

\* the error applyModel's catch block throws: it names both paths
LoadError == {descriptorsPath, modelPath}

\* build/svm.js lines 109-111: the descriptors file is read and deserialized;
\* the read fails when the file is missing and can fail when it is there
\* (unreadable), and so can bson.deserialize (corrupt)
ApplyReadDescriptors ==
  /\ ipc = "applyReadDescriptors"
  /\ ioLog' = Append(ioLog, <<"read", descriptorsPath>>)
  /\ \E loaded \in BOOLEAN :
       IF Exists(descriptorsPath) /\ loaded
         THEN /\ ipc' = "applyReadModel"
              /\ UNCHANGED <<outcome, descriptorsPath, modelPath>>
         ELSE /\ ipc' = "idle"
              /\ outcome' = Threw("applyModel", Null, "load", LoadError)
              /\ descriptorsPath' = Unset /\ modelPath' = Unset
  /\ UNCHANGED <<copy, env, externalModelPaths, files>>
  /\ UNCHANGED notSvm

\* mutant of ApplyReadModel: the model path is resolved again at the time of
\* the read
ApplyReadModel_ResolvesAgain ==
  /\ ipc = "applyReadModel"
  /\ LET p == IF getFilePath.found THEN getFilePath.model ELSE modelPath
     IN  /\ ioLog' = Append(ioLog, <<"read", p>>)
         /\ \E loaded \in BOOLEAN :
              outcome' = IF Exists(p) /\ loaded
                           THEN Returned("applyModel", Null)
                           ELSE Threw("applyModel", Null, "load", LoadError)
  /\ ipc' = "idle"
  /\ descriptorsPath' = Unset /\ modelPath' = Unset
  /\ UNCHANGED <<copy, env, externalModelPaths, files>>
  /\ UNCHANGED notSvm

\* build/svm.js lines 113-120: the model file is read, loaded and applied;
\* the read fails when the file is missing and can fail when it is there, and
\* so can SVM.load and predict
ApplyReadModel ==
  /\ ipc = "applyReadModel"
  /\ ioLog' = Append(ioLog, <<"read", modelPath>>)
  /\ ipc' = "idle"
  /\ \E loaded \in BOOLEAN :
       outcome' = IF Exists(modelPath) /\ loaded
                    THEN Returned("applyModel", Null)
                    ELSE Threw("applyModel", Null, "load", LoadError)
  /\ descriptorsPath' = Unset /\ modelPath' = Unset
  /\ UNCHANGED <<copy, env, externalModelPaths, files>>
  /\ UNCHANGED notSvm

\* createModel(...), up to its first await: getFilePath() throws, or train is
\* called
CreateStart ==
  /\ ipc = "idle"
  /\ ioLog' = <<>>
  /\ IF getFilePath.found
       THEN /\ descriptorsPath' = getFilePath.descriptors
            /\ modelPath' = getFilePath.model
            /\ ipc' = "createWriteDescriptors"
            /\ UNCHANGED outcome
       ELSE /\ outcome' = Threw("createModel", Null, "resolve", NotFoundNamed)
            /\ UNCHANGED <<ipc, descriptorsPath, modelPath>>
  /\ UNCHANGED <<copy, env, externalModelPaths, files>>
  /\ UNCHANGED notSvm

\* build/svm.js lines 139-142 and 144-146: the descriptors file is written; a
\* failure is caught and logged, and createModel returns
CreateWriteDescriptors ==
  /\ ipc = "createWriteDescriptors"
  /\ ioLog' = Append(ioLog, <<"write", descriptorsPath>>)
  /\ \E written \in BOOLEAN :
       IF written
         THEN /\ files' = [files EXCEPT ![descriptorsPath] = "new"]
              /\ ipc' = "createWriteModel"
              /\ UNCHANGED <<outcome, descriptorsPath, modelPath>>
         ELSE /\ ipc' = "idle"
              /\ outcome' = Returned("createModel", Null)
              /\ descriptorsPath' = Unset /\ modelPath' = Unset
              /\ UNCHANGED files
  /\ UNCHANGED <<copy, env, externalModelPaths>>
  /\ UNCHANGED notSvm

\* build/svm.js lines 143-146: the model file is written, the same way
CreateWriteModel ==
  /\ ipc = "createWriteModel"
  /\ ioLog' = Append(ioLog, <<"write", modelPath>>)
  /\ \E written \in BOOLEAN :
       files' = IF written THEN [files EXCEPT ![modelPath] = "new"] ELSE files
  /\ ipc' = "idle"
  /\ outcome' = Returned("createModel", Null)
  /\ descriptorsPath' = Unset /\ modelPath' = Unset
  /\ UNCHANGED <<copy, env, externalModelPaths>>
  /\ UNCHANGED notSvm

NextSvm ==
  \/ SetModelPaths
  \/ ApplyStart
  \/ ApplyReadDescriptors
  \/ ApplyReadModel
  \/ CreateStart
  \/ CreateWriteDescriptors
  \/ CreateWriteModel

SpecSvm == InitSvm /\ [][NextSvm]_vars

(***************************************************************************)
(* Claims about the model store                                            *)
(***************************************************************************)
\* both environment variables are set
EnvBoth == Truthy(env.MRZ_DESCRIPTORS_PATH) /\ Truthy(env.MRZ_MODEL_PATH)
\* a step in which applyModel or createModel calls getFilePath()
ResolveStep ==
  /\ ipc = "idle"
  /\ \/ ipc' # "idle"
     \/ outcome'.stage = "resolve" /\ outcome'.op # "setModelPaths"
\* the invocation goes on with the paths d and m
ResolvedTo(d, m) == ipc' # "idle" /\ descriptorsPath' = d /\ modelPath' = m
\* the invocation goes on with the paths of a file system candidate
ResolvedToCandidate ==
  /\ ipc' # "idle"
  /\ descriptorsPath'[1] \in {prodPath_build, prodPath_index, localPath}

\* the priority C7 states, for the calls of the copy c of the module
PathPriority(c) ==
  (copy = c /\ ResolveStep) =>
    /\ (EnvBoth /\ Injected) =>
         ResolvedTo(env.MRZ_DESCRIPTORS_PATH, env.MRZ_MODEL_PATH)
    /\ (~EnvBoth /\ Injected) =>
         ResolvedTo(externalModelPaths.descriptors, externalModelPaths.model)
    /\ ResolvedToCandidate => (~EnvBoth /\ ~Injected)

\* C7: path resolution follows the priority environment variables, then the
\* paths injected with setModelPaths, then the file system candidates: with
\* both environment variables set and paths injected, every train/apply call
\* resolves to the environment's paths; with only injected paths, to them; the
\* file system candidates are consulted only when neither is present. Stated
\* of build/svm.js, the module the package entry point requires.
C7_PathPriority == [][PathPriority("build")]_vars

\* the copy in index.js does follow the priority of C7
C7_PathPriorityIndexCopy == [][PathPriority("index")]_vars

\* the descriptors files getFilePath looks for before it gives up
Attempted ==
  {Join(IF copy = "index" THEN prodPath_index ELSE prodPath_build,
        DescriptorsName),
   Join(localPath, DescriptorsName)}

\* the last call was a train/apply call that ended in getFilePath's error
ResolutionFailed == ipc = "idle" /\ outcome.stage = "resolve"

\* C8: with no environment override, no injected paths and no file system
\* candidate, path resolution fails with an error that enumerates every
\* location it attempted, and the calling operation performs no file read or
\* write.
C8_NotFoundNamesLocations ==
  ResolutionFailed =>
    /\ outcome.result = "threw"
    /\ Attempted \subseteq outcome.named
    /\ ioLog = <<>>

\* the part of C8 the code keeps: the failed call threw before any file
\* operation
C8_NoFileOperation ==
  ResolutionFailed => (outcome.result = "threw" /\ ioLog = <<>>)

\* a step that is a call of setModelPaths
SetterStep == outcome'.op = "setModelPaths" /\ ipc' = ipc /\ ioLog' = ioLog
\* an argument that is not an object, or lacks a non-empty descriptors path or
\* a non-empty model path
InvalidPaths(models) ==
  \/ models.kind # "object"
  \/ ~Truthy(models.descriptors)
  \/ ~Truthy(models.model)

\* what C9 states, for the setModelPaths of the copy c of the module
RejectsInvalid(c) ==
  (copy = c /\ SetterStep /\ InvalidPaths(outcome'.arg)) =>
    /\ outcome'.result = "threw"
    /\ externalModelPaths' = externalModelPaths

\* C9: setModelPaths, as exposed by the package entry point (build/svm.js),
\* rejects an argument that is not an object or that lacks a non-empty
\* descriptors path or a non-empty model path by throwing at the time of the
\* call, and a rejected call leaves the stored configuration unchanged.
C9_RejectsInvalidPaths == [][RejectsInvalid("build")]_vars

\* the setModelPaths of src/svm.js does what C9 states
C9_RejectsInvalidPathsSrcCopy == [][RejectsInvalid("src")]_vars

\* a step in which applyModel gets the answer to one of its two reads
ApplyReadStep ==
  ipc \in {"applyReadDescriptors", "applyReadModel"} /\ ipc' # ipc
\* the file that read is of
ReadPath ==
  IF ipc = "applyReadDescriptors" THEN descriptorsPath ELSE modelPath
\* the invocation ends in an error that names both of its paths
Aborted ==
  /\ ipc' = "idle"
  /\ outcome'.op = "applyModel"
  /\ outcome'.result = "threw"
  /\ outcome'.named = {descriptorsPath, modelPath}

\* C13: when either artifact file is missing, unreadable or fails to
\* deserialize, applyModel aborts the whole batch: it throws an error whose
\* message names both the descriptors path and the model path it attempted,
\* and it returns no prediction.
C13_LoadFailureNamesBothPaths ==
  [][ApplyReadStep =>
       /\ ~Exists(ReadPath) => Aborted
       /\ (ipc' = "idle" /\ outcome'.result # "returned") => Aborted
       /\ (ipc' = "idle" /\ outcome'.result = "returned") =>
            (Exists(descriptorsPath) /\ Exists(modelPath))]_vars

\* C13 witness: the descriptors file was read, the model file was missing, and
\* the error names the two paths that were read.
C13_Witness ==
  /\ ipc = "idle"
  /\ outcome.op = "applyModel"
  /\ outcome.stage = "load"
  /\ Len(ioLog) = 2
  /\ Exists(ioLog[1][2])
  /\ ~Exists(ioLog[2][2])
  /\ outcome.named = {ioLog[1][2], ioLog[2][2]}

\* C13 second case reached: both files are there and the load failed.
C13_WitnessCorrupt ==
  /\ ipc = "idle"
  /\ outcome.op = "applyModel"
  /\ outcome.stage = "load"
  /\ Len(ioLog) = 2
  /\ Exists(ioLog[1][2])
  /\ Exists(ioLog[2][2])

\* an invocation of applyModel or createModel is suspended at file I/O
Suspended == ipc \notin {"idle", "off"}
\* a step in which the invocation performs a file operation
FileOperation == ioLog' # ioLog /\ ioLog' # <<>>
\* the path the invocation's next file operation is due on
PathDue ==
  IF ipc \in {"applyReadDescriptors", "createWriteDescriptors"}
    THEN descriptorsPath ELSE modelPath
\* the loaded copy's getFilePath looks at the injected paths first
InjectedFirst == copy = "index" => ~EnvBoth

\* C16: model paths are resolved once per applyModel/createModel invocation,
\* before its first file operation: under every interleaving of setModelPaths
\* calls with an invocation suspended at file I/O, the descriptors path and
\* the model path it uses both come from the single configuration in effect
\* when it started, never one from an older and one from a newer
\* configuration; an invocation started after the last setModelPaths call
\* uses the last paths set.
C16_PathsResolvedOnce ==
  /\ [](Suspended => <<descriptorsPath, modelPath>> \in Pairs)
  /\ [](\E q \in Pairs : \A i \in 1..Len(ioLog) : ioLog[i][2] \in {q[1], q[2]})
  /\ [][(Suspended /\ ipc' # "idle") =>
          (descriptorsPath' = descriptorsPath /\ modelPath' = modelPath)]_vars
  /\ [][FileOperation =>
          (Suspended /\ ioLog' = Append(ioLog, <<ioLog'[Len(ioLog')][1], PathDue>>))]_vars
  /\ [][(ResolveStep /\ ipc' # "idle") =>
          /\ ioLog' = <<>>
          /\ (Injected /\ InjectedFirst) =>
               ResolvedTo(externalModelPaths.descriptors,
                          externalModelPaths.model)]_vars

\* C16 witness: applyModel read the pair /a it had resolved at its start
\* although setModelPaths injected the pair /b while it was suspended.
C16_Witness ==
  /\ ipc = "idle"
  /\ outcome = Returned("applyModel", Null)
  /\ ioLog = <<<<"read", InjAD>>, <<"read", InjAM>>>>
  /\ externalModelPaths = Obj(InjBD, InjBM)

\* C16 second case reached: createModel is suspended between its two writes
\* with the pair /a, and the stored configuration is the pair /b.
C16_WitnessCreate ==
  /\ ipc = "createWriteModel"
  /\ modelPath = InjAM
  /\ ioLog = <<<<"write", InjAD>>>>
  /\ externalModelPaths = Obj(InjBD, InjBM)

\* a step in which an invocation of createModel ends after path resolution
CreateEnds ==
  ipc \in {"createWriteDescriptors", "createWriteModel"} /\ ipc' = "idle"

\* C17: createModel replaces the artifact pair wholesale: whenever it completes
\* without raising an error, the descriptors file and the classifier file at
\* the resolved paths both hold the output of that training run; a failure to
\* write either file is raised to the caller and never reported as a
\* successful retrain.
C17_WholesaleOrRaised ==
  [][(CreateEnds /\ outcome'.result = "returned") =>
       /\ ipc = "createWriteModel"
       /\ files'[descriptorsPath] = "new"
       /\ files'[modelPath] = "new"]_vars

\* what createModel does with a failed write: it returns all the same, after
\* the first failed write, and the files are left as they were
C17_WriteFailureSwallowed ==
  [][CreateEnds =>
       /\ outcome' = Returned("createModel", Null)
       /\ files'[PathDue] # "new" => files' = files
       /\ ipc = "createWriteDescriptors" => files' = files]_vars

\* a retrain has returned with a new descriptors file beside an old model file
C17_WitnessHalfWritten ==
  /\ ipc = "idle"
  /\ outcome = Returned("createModel", Null)
  /\ ioLog = <<<<"write", InjAD>>, <<"write", InjAM>>>>
  /\ files[InjAD] = "new"
  /\ files[InjAM] = "old"

(***************************************************************************)
(* mrzOcr (build/internal/mrzOcr.js)                                        *)
(***************************************************************************)
\* A region is [id, label]: id tells the regions apart, label is the character
\* code the classifier predicts for the region's crop.
\* the line of n regions with the ids base + 1 .. base + n
MkLine(base, n) ==
  [rois |-> [j \in 1..n |-> [id |-> base + j, label |-> 60 + ((base + j) % 7)]]]

\* the lines getLinesFromImage may return: of 0, 5, 6, 6, 7 and 9 regions
LinePool ==
  {MkLine(0, 0), MkLine(10, 5), MkLine(20, 6), MkLine(30, 6), MkLine(40, 7),
   MkLine(50, 9)}

\* line 14: lines.filter(line => line.rois.length > 5)
KeepLine(line) == Len(line.rois) > 5
Filtered(ls) == SelectSeq(ls, KeepLine)

\* mutant of LastThree: the first three lines are kept
LastThree_FirstThree(ls) == IF Len(ls) > 3 THEN SubSeq(ls, 1, 3) ELSE ls

\* lines 15-17: lines.slice(lines.length - 3, lines.length) when more than 3
LastThree(ls) == IF Len(ls) > 3 THEN SubSeq(ls, Len(ls) - 2, Len(ls)) ELSE ls

\* lines 19-37: one entry per region, line by line, in per-line order
RECURSIVE Flatten(_, _)
Flatten(ls, i) ==
  IF i > Len(ls) THEN <<>>
  ELSE [j \in 1..Len(ls[i].rois) |->
          [image |-> ls[i].rois[j], line |-> i - 1, column |-> j - 1]]
       \o Flatten(ls, i + 1)

\* String.fromCharCode(p): one UTF-16 code unit
fromCharCode(p) == <<p % 65536>>

\* what the classifier answers for a batch of crops: one code per crop, in the
\* order of the batch
Predict(batch) == [i \in 1..Len(batch) |-> batch[i].label]

\* mutant of Reassemble: every line string is read from the start of the
\* predictions
RECURSIVE Reassemble_CountReset(_, _, _)
Reassemble_CountReset(ls, predicted, count) ==
  IF ls = <<>> THEN <<>>
  ELSE LET n == Len(ls[1].rois)
           RECURSIVE Text(_)
           Text(k) == IF k = 0 THEN <<>>
                      ELSE Text(k - 1) \o predicted[k]
       IN  <<Text(n)>> \o Reassemble_CountReset(Tail(ls), predicted, 0)

\* lines 44-51: the predictions cut into one string per line
RECURSIVE Reassemble(_, _, _)
Reassemble(ls, predicted, count) ==
  IF ls = <<>> THEN <<>>
  ELSE LET n == Len(ls[1].rois)
           RECURSIVE Text(_)
           Text(k) == IF k = 0 THEN <<>>
                      ELSE Text(k - 1) \o predicted[count + k]
       IN  <<Text(n)>> \o Reassemble(Tail(ls), predicted, count + n)

\* the call mrzOcr(image): getLinesFromImage(image) has returned
InitOcr ==
  /\ segLines \in UNION {[1..n -> LinePool] : n \in 0..MaxLines}
  /\ olines = segLines
  /\ orois = <<>>
  /\ calls = <<>>
  /\ ocrResult = <<>>
  /\ opc = "start"
  /\ QSOff /\ GroupOff /\ DescOff /\ TrainOff /\ SvmOff /\ ScanOff

\* lines 14-39: the lines are filtered and trimmed, the regions cropped and
\* handed to predictImages in one batch; mrzOcr awaits the predictions
OcrPrepare ==
  /\ opc = "start"
  /\ olines' = LastThree(Filtered(olines))
  /\ orois' = Flatten(olines', 1)
  /\ calls' = Append(calls, [i \in 1..Len(orois') |-> orois'[i].image])
  /\ opc' = "predicting"
  /\ UNCHANGED <<segLines, ocrResult>>
  /\ UNCHANGED notOcr

\* lines 39-58: the predictions arrive and the line strings are built
OcrPredicted ==
  /\ opc = "predicting"
  /\ LET codes == Predict(calls[Len(calls)])
         predicted == [i \in 1..Len(codes) |-> fromCharCode(codes[i])]
     IN  /\ orois' = [i \in 1..Len(orois) |->
                        [image |-> orois[i].image, line |-> orois[i].line,
                         column |-> orois[i].column, predicted |-> predicted[i]]]
         /\ ocrResult' = Reassemble(olines, predicted, 0)
  /\ opc' = "done"
  /\ UNCHANGED <<segLines, olines, calls>>
  /\ UNCHANGED notOcr

\* line 39: predictImages rejects (no model files, a failed read): the error
\* leaves mrzOcr
OcrPredictFailed ==
  /\ opc = "predicting"
  /\ opc' = "failed"
  /\ UNCHANGED <<segLines, olines, orois, calls, ocrResult>>
  /\ UNCHANGED notOcr

NextOcr ==
  \/ OcrPrepare
  \/ OcrPredicted
  \/ OcrPredictFailed

SpecOcr == InitOcr /\ [][NextOcr]_vars

(***************************************************************************)
(* Claims about mrzOcr                                                     *)
(***************************************************************************)
\* the lines of segLines with more than 5 regions, in their order
LongLines == SelectSeq(segLines, LAMBDA l : Len(l.rois) >= 6)

\* C10: mrzOcr first discards every line that has 5 or fewer regions and then,
\* if more than 3 lines remain, keeps only the last 3 of them in their
\* original order; the result never has more than 3 line strings and every
\* line string has at least 6 characters.
C10_KeepsLastThreeLongLines ==
  opc \in {"predicting", "done", "failed"} =>
    /\ Len(olines) = IF Len(LongLines) > 3 THEN 3 ELSE Len(LongLines)
    /\ \A i \in 1..Len(olines) :
         olines[i] = LongLines[Len(LongLines) - Len(olines) + i]
    /\ opc = "done" =>
         /\ Len(ocrResult) = Len(olines)
         /\ Len(ocrResult) <= 3
         /\ \A i \in 1..Len(ocrResult) : Len(ocrResult[i]) >= 6

\* C10 witness: of four lines with more than 5 regions (and different ones at
\* both ends) the last three were kept and read.
C10_Witness ==
  /\ opc = "done"
  /\ Len(segLines) = 4
  /\ Len(LongLines) = 4
  /\ segLines[1] # segLines[4]
  /\ olines = SubSeq(segLines, 2, 4)
  /\ Len(ocrResult) = 3

\* C10 second case reached: a line of 5 regions was discarded.
C10_WitnessNoise ==
  /\ opc = "done"
  /\ \E i \in 1..Len(segLines) : Len(segLines[i].rois) = 5
  /\ Len(ocrResult) = 2

\* the number of regions of the lines before line i (1-based) of ls
RegionsBefore(ls, i) ==
  LET RECURSIVE Sum(_)
      Sum(k) == IF k = 0 THEN 0 ELSE Sum(k - 1) + Len(ls[k].rois)
  IN  Sum(i - 1)

\* the entry of orois made for region k of line i (both 1-based)
EntryOf(i, k) ==
  CHOOSE e \in Range(orois) : e.line = i - 1 /\ e.column = k - 1

\* C11: mrzOcr sends all glyphs of all kept lines to the classifier in exactly
\* one call, flattened line by line in per-line region order, and returns one
\* string per kept line in line order, where string i has as many characters
\* as line i has regions and its k-th character is the character of the
\* prediction made for the k-th region of line i.
C11_OneBatchRezipped ==
  opc \in {"predicting", "done", "failed"} =>
    /\ Len(calls) = 1
    /\ Len(calls[1]) = RegionsBefore(olines, Len(olines) + 1)
    /\ \A i \in 1..Len(olines) : \A k \in 1..Len(olines[i].rois) :
         calls[1][RegionsBefore(olines, i) + k] = olines[i].rois[k]
    /\ opc = "done" =>
         /\ Len(ocrResult) = Len(olines)
         /\ \A i \in 1..Len(olines) :
              /\ Len(ocrResult[i]) = Len(olines[i].rois)
              /\ \A k \in 1..Len(olines[i].rois) :
                   /\ EntryOf(i, k).image = olines[i].rois[k]
                   /\ EntryOf(i, k).predicted = <<ocrResult[i][k]>>
                   /\ ocrResult[i][k] = olines[i].rois[k].label

\* C11 witness: three kept lines of 9 regions gave one call of 27 glyphs and
\* three strings of length 9.
C11_Witness ==
  /\ opc = "done"
  /\ Len(olines) = 3
  /\ \A i \in 1..3 : Len(olines[i].rois) = 9
  /\ Len(calls) = 1
  /\ Len(calls[1]) = 27
  /\ Len(ocrResult) = 3
  /\ \A i \in 1..3 : Len(ocrResult[i]) = 9

\* C11 second case reached: kept lines of different lengths and characters.
C11_WitnessMixed ==
  /\ opc = "done"
  /\ Len(olines) = 3
  /\ Len(olines[1].rois) > Len(olines[2].rois)
  /\ ocrResult[2] # SubSeq(ocrResult[1], 1, Len(ocrResult[2]))

(***************************************************************************)
(* detectAndParseMrz (build/detect-and-parse.js)                           *)
(***************************************************************************)
\* the documents a caller may hand in
Buffers == {"passport", "idcard"}

\* the values a caller may pass as options: nothing, null, an array, or an
\* object with or without the key `original`
NoOptions == [type |-> "undefined"]
NullOptions == [type |-> "null"]
ArrayOptions == [type |-> "array"]
ObjectOptions(o) == [type |-> "object", original |-> o]
OptionValues ==
  {NoOptions, NullOptions, ArrayOptions}
    \cup {ObjectOptions(o) : o \in {"absent", "true", "false"}}

\* line 8: an object that is neither an array nor null is kept, anything
\* else becomes {}
getOptions(value) ==
  IF value.type = "object" THEN value ELSE ObjectOptions("absent")

\* the stages of a scan that can fail, and what fails in them
\*   line 14: ImageClass.load(buffer)         image loading
\*   line 14: getMrz(image)                   MRZ extraction
\*   line 16: ImageClass.load(imageDataUrl)   image loading
\*   line 19: mrzOcr(toImage)                 model path resolution, model
\*                                            loading, classification
\*   line 20: parse(ocrResult)                field parsing
\*   lines 21-27: fields read and formatted   field parsing
OcrFailures == {"model path resolution", "model loading", "classification"}

\* an error thrown by a stage
ErrorOf(what) == [error |-> what]
NoError == [error |-> "none"]

\* how the promise of the async function stands
Pending == [state |-> "pending"]
Fulfilled(v) == [state |-> "fulfilled", value |-> v]
Rejected(err) == [state |-> "rejected", reason |-> err]

\* the value of a function body that ends without a return statement
UndefinedValue == [kind |-> "undefined"]
\* line 20: what mrz-relax parsed; lines 21-27: the five formatted fields
Parsed(doc) == [kind |-> "parsed", of |-> doc]
Formatted(doc) == [kind |-> "formatted", of |-> doc]

\* line 21: original ? parsed : {...}
formattedResult(orig, doc) ==
  IF orig = "true" THEN Parsed(doc) ELSE Formatted(doc)

\* where a stage that threw leaves control: in the catch clause of line 29
ToCatch(what) ==
  /\ spc' = "catch"
  /\ caught' = ErrorOf(what)
  /\ UNCHANGED <<buffer, options, original, consoleLog, settled>>

\* where a stage that succeeded leaves control
ToStage(next) ==
  /\ spc' = next
  /\ UNCHANGED <<buffer, options, original, caught, consoleLog, settled>>

\* the call detectAndParseMrz(buffer, options): lines 9-13
InitScan ==
  /\ buffer \in Buffers
  /\ options \in OptionValues
  /\ original = getOptions(options).original
  /\ spc = "load"
  /\ caught = NoError
  /\ consoleLog = <<>>
  /\ settled = Pending
  /\ QSOff /\ GroupOff /\ DescOff /\ TrainOff /\ SvmOff /\ OcrOff

\* line 14, inner await: ImageClass.load(buffer)
ScanLoadImage ==
  /\ spc = "load"
  /\ \/ ToStage("getMrz")
     \/ ToCatch("image loading")
  /\ UNCHANGED notScan

\* line 14, outer await: getMrz(image)
ScanGetMrz ==
  /\ spc = "getMrz"
  /\ \/ ToStage("reload")
     \/ ToCatch("MRZ extraction")
  /\ UNCHANGED notScan

\* lines 15-16: mrz.toDataURL(), ImageClass.load(imageDataUrl)
ScanReload ==
  /\ spc = "reload"
  /\ \/ ToStage("ocr")
     \/ ToCatch("image loading")
  /\ UNCHANGED notScan

\* lines 17-19: await mrzOcr(toImage)
ScanOcr ==
  /\ spc = "ocr"
  /\ \/ ToStage("parse")
     \/ \E what \in OcrFailures : ToCatch(what)
  /\ UNCHANGED notScan

\* line 20: parse(ocrResult)
ScanParse ==
  /\ spc = "parse"
  /\ \/ ToStage("format")
     \/ ToCatch("field parsing")
  /\ UNCHANGED notScan

\* lines 21-28: the result is formatted and returned; reading and formatting
\* the fields can throw when the caller did not ask for the original
ScanFormat ==
  /\ spc = "format"
  /\ \/ /\ spc' = "done"
        /\ settled' = Fulfilled(formattedResult(original, buffer))
        /\ UNCHANGED <<buffer, options, original, caught, consoleLog>>
     \/ /\ original # "true"
        /\ ToCatch("field parsing")
  /\ UNCHANGED notScan

\* lines 29-32: catch (e) { console.log(e); } and the end of the function
ScanCatch ==
  /\ spc = "catch"
  /\ consoleLog' = Append(consoleLog, caught)
  /\ settled' = Fulfilled(UndefinedValue)
  /\ spc' = "done"
  /\ UNCHANGED <<buffer, options, original, caught>>
  /\ UNCHANGED notScan

NextScan ==
  \/ ScanLoadImage
  \/ ScanGetMrz
  \/ ScanReload
  \/ ScanOcr
  \/ ScanParse
  \/ ScanFormat
  \/ ScanCatch

SpecScan == InitScan /\ [][NextScan]_vars

(***************************************************************************)
(* Claims about detectAndParseMrz                                          *)
(***************************************************************************)
\* C12: when any stage of a scan fails (image loading, MRZ extraction, model
\* path resolution, model loading, classification or field parsing),
\* detectAndParseMrz propagates the failure to its caller as a rejected
\* promise; it never completes normally after a failure.
C12_FailurePropagates ==
  (spc = "done" /\ caught # NoError) => settled = Rejected(caught)

\* what detectAndParseMrz does with a failure: it prints the error and
\* fulfils its promise with undefined
C12_FailureLoggedAndSwallowed ==
  (spc = "done" /\ caught # NoError)
    => /\ settled = Fulfilled(UndefinedValue)
       /\ consoleLog = <<caught>>

\* a scan without a failure returns the result the options ask for
C12_SuccessReturnsResult ==
  (spc = "done" /\ caught = NoError)
    => /\ settled = Fulfilled(formattedResult(original, buffer))
       /\ consoleLog = <<>>

\* a failed model path resolution has been swallowed
C12_WitnessSwallowed ==
  /\ spc = "done"
  /\ caught = ErrorOf("model path resolution")
  /\ settled = Fulfilled(UndefinedValue)

(***************************************************************************)
(* quickSelect                                                             *)
(***************************************************************************)
\* arr[i] in JavaScript: undefined outside 0..length-1
At(a, i) == IF i >= 0 /\ i < Len(a) THEN a[i + 1] ELSE Undefined

\* x > y in JavaScript for numbers and undefined
Gt(x, y) == x # Undefined /\ y # Undefined /\ x > y

\* mutant of swap: the second element is copied over the first and kept
swap_Overwrite(a, x, y) == [a EXCEPT ![x + 1] = a[y + 1]]

\* [arr[x], arr[y]] = [arr[y], arr[x]]
swap(a, x, y) == [a EXCEPT ![x + 1] = a[y + 1], ![y + 1] = a[x + 1]]

\* mutant of calcMiddle: rounds the middle up
calcMiddle_RoundsUp(x, y) == (x + y + 1) \div 2

\* ~~((x + y) / 2): truncation toward zero
calcMiddle(x, y) ==
  IF x + y >= 0 THEN (x + y) \div 2 ELSE 0 - ((0 - (x + y)) \div 2)

\* lines 17-20: median of three of low/middle/high, pivot to low, middle to low+1
MedianOfThree(a, lo, hi) ==
  LET middle == calcMiddle(lo, hi)
      a1 == IF Gt(At(a, middle), At(a, hi)) THEN swap(a, middle, hi) ELSE a
      a2 == IF Gt(At(a1, lo), At(a1, hi)) THEN swap(a1, lo, hi) ELSE a1
      a3 == IF Gt(At(a2, middle), At(a2, lo)) THEN swap(a2, middle, lo) ELSE a2
  IN  swap(a3, middle, lo + 1)

\* the call quickSelect(arr): lines 4-7
InitQS ==
  /\ arr \in UNION {[1..n -> 0..MaxVal] : n \in 0..MaxLen}
  /\ arr0 = arr
  /\ low = 0
  /\ high = Len(arr) - 1
  /\ median = calcMiddle(0, Len(arr) - 1)
  /\ ll = 0 /\ hh = 0
  /\ qpc = "check"
  /\ qret = Undefined
  /\ GroupOff /\ DescOff /\ TrainOff /\ SvmOff /\ OcrOff /\ ScanOff

\* lines 9-11: a window of at most one element
QSReturnOne ==
  /\ qpc = "check"
  /\ high <= low
  /\ qret' = At(arr, median)
  /\ qpc' = "done"
  /\ UNCHANGED notQS
  /\ UNCHANGED <<arr, arr0, low, high, median, ll, hh>>

\* lines 12-15: a window of two elements
QSReturnTwo ==
  /\ qpc = "check"
  /\ ~(high <= low)
  /\ high = low + 1
  /\ arr' = IF Gt(At(arr, low), At(arr, high)) THEN swap(arr, low, high) ELSE arr
  /\ qret' = At(arr', median)
  /\ qpc' = "done"
  /\ UNCHANGED notQS
  /\ UNCHANGED <<arr0, low, high, median, ll, hh>>

\* lines 16-22: pivot selection, cursors set
QSPivot ==
  /\ qpc = "check"
  /\ ~(high <= low)
  /\ high # low + 1
  /\ arr' = MedianOfThree(arr, low, high)
  /\ ll' = low + 1
  /\ hh' = high
  /\ qpc' = "scanLL"
  /\ UNCHANGED notQS
  /\ UNCHANGED <<arr0, low, high, median, qret>>

\* line 24, one iteration: do ll++; while (arr[low] > arr[ll])
QSScanLL ==
  /\ qpc = "scanLL"
  /\ ll' = ll + 1
  /\ qpc' = IF Gt(At(arr, low), At(arr, ll')) THEN "scanLL" ELSE "scanHH"
  /\ UNCHANGED notQS
  /\ UNCHANGED <<arr, arr0, low, high, median, hh, qret>>

\* line 25, one iteration: do hh--; while (arr[hh] > arr[low])
QSScanHH ==
  /\ qpc = "scanHH"
  /\ hh' = hh - 1
  /\ qpc' = IF Gt(At(arr, hh'), At(arr, low)) THEN "scanHH" ELSE "cross"
  /\ UNCHANGED notQS
  /\ UNCHANGED <<arr, arr0, low, high, median, ll, qret>>

\* lines 26-27: the cursors have not crossed, swap the pair and scan on
QSSwapPair ==
  /\ qpc = "cross"
  /\ ~(hh < ll)
  /\ arr' = swap(arr, ll, hh)
  /\ qpc' = "scanLL"
  /\ UNCHANGED notQS
  /\ UNCHANGED <<arr0, low, high, median, ll, hh, qret>>

\* mutant of NextHigh: the window is never narrowed from above
NextHigh_Keeps(hi, h, med) == hi

\* the window after a partition pass: lines 30-35
NextLow(lo, l, h, med) == IF h <= med THEN l ELSE lo
NextHigh(hi, h, med) == IF h >= med THEN h - 1 ELSE hi

\* line 26 (break) and lines 29-35: pivot to its place, window narrowed
QSPartition ==
  /\ qpc = "cross"
  /\ hh < ll
  /\ arr' = swap(arr, low, hh)
  /\ low' = NextLow(low, ll, hh, median)
  /\ high' = NextHigh(high, hh, median)
  /\ qpc' = "check"
  /\ UNCHANGED notQS
  /\ UNCHANGED <<arr0, median, ll, hh, qret>>

NextQS ==
  \/ QSReturnOne
  \/ QSReturnTwo
  \/ QSPivot
  \/ QSScanLL
  \/ QSScanHH
  \/ QSSwapPair
  \/ QSPartition

SpecQS == InitQS /\ [][NextQS]_vars

\* quickSelect is synchronous code: once called it runs on, statement after
\* statement, until it returns
SpecQSFair == SpecQS /\ WF_vars(NextQS)

(***************************************************************************)
(* Claims about quickSelect                                                *)
(***************************************************************************)
\* the value at index k (0-based) of an ascending sort of a
SortedAt(a, k) ==
  CHOOSE v \in Range(a) :
    /\ Cardinality({i \in 1..Len(a) : a[i] < v}) <= k
    /\ k < Cardinality({i \in 1..Len(a) : a[i] <= v})

\* C1: for every non-empty array of length n, quickSelect returns the value
\* that stands at index floor((n-1)/2) of an ascending sort of the original
\* contents of the array.
C1_SelectsMedian ==
  (qpc = "done" /\ Len(arr0) > 0)
    => qret = SortedAt(arr0, (Len(arr0) - 1) \div 2)

\* C1 witness: a call on an unsorted array with a duplicate, of length at
\* least 4, has returned after at least one partition pass moved elements.
C1_Witness ==
  /\ qpc = "done"
  /\ Len(arr0) >= 4
  /\ arr # arr0
  /\ Cardinality(Range(arr0)) < Len(arr0)
  /\ \E i \in 1..(Len(arr0) - 1) : arr0[i] > arr0[i + 1]
  /\ qret = SortedAt(arr0, (Len(arr0) - 1) \div 2)


\* the number of elements of the active window [low, high]
WindowSize == IF high < low THEN 0 ELSE high - low + 1

\* a pass of the outer loop ends: lines 29-35
PassEnds == qpc = "cross" /\ qpc' = "check"
\* the inner loop of lines 23-28 goes round or is left
InnerLoopTest == qpc = "cross" /\ qpc' # qpc

\* C14: quickSelect terminates on every finite array of numbers, the empty, the
\* single-element, the all-equal, the sorted and the reverse-sorted ones
\* included: each pass of the outer loop strictly shrinks the active window
\* [low, high], and the inner loop is left only with the two cursors crossed.
C14_Terminates ==
  /\ <>(qpc = "done")
  /\ [][PassEnds =>
          /\ low' >= low /\ high' <= high
          /\ high' - low' < high - low
          /\ hh < ll]_vars
  /\ [][InnerLoopTest => (qpc' = "check" <=> hh < ll)]_vars

\* C14 witness: a call on an all-equal array of length 5 has returned after a
\* pass that narrowed the window.
C14_Witness ==
  /\ qpc = "done"
  /\ Len(arr0) = 5
  /\ Cardinality(Range(arr0)) = 1
  /\ WindowSize < 5

\* C14 further cases reached: the empty array, and a reverse-sorted one.
C14_WitnessEmpty == qpc = "done" /\ arr0 = <<>> /\ qret = Undefined
C14_WitnessReverse ==
  /\ qpc = "done"
  /\ Len(arr0) = 5
  /\ \A i \in 1..4 : arr0[i] >= arr0[i + 1]
  /\ arr0[1] > arr0[3] /\ arr0[3] > arr0[5]
  /\ WindowSize < 5


\* how many times the value v stands in a
Count(a, v) == Cardinality({i \in 1..Len(a) : a[i] = v})
\* a and b hold the same multiset of values
SameMultiset(a, b) ==
  /\ Len(a) = Len(b)
  /\ \A v \in Range(a) \cup Range(b) : Count(a, v) = Count(b, v)

\* a is partitioned around the index m (0-based)
PartitionedAround(a, m) ==
  /\ \A i \in 0..(m - 1) : At(a, i) <= At(a, m)
  /\ \A i \in (m + 1)..(Len(a) - 1) : At(a, i) >= At(a, m)

\* the steps in which a cursor moves and the element under it is read:
\* lines 24 and 25
ReadsLL == qpc = "scanLL" /\ ll' # ll
ReadsHH == qpc = "scanHH" /\ hh' # hh

\* C18: quickSelect only swaps elements, so the array holds the same multiset
\* of values as on entry; on return it is partitioned around the median index
\* m = floor((n-1)/2): every element below m is less than or equal to arr[m]
\* and every element above m is greater than or equal to it; during the run
\* the scanning cursors never read an index outside the window [low, high].
C18_SwapsOnlyAndPartitions ==
  /\ [](SameMultiset(arr, arr0))
  /\ []((qpc = "done" /\ Len(arr0) > 0) =>
          /\ median = (Len(arr0) - 1) \div 2
          /\ PartitionedAround(arr, median))
  /\ [][/\ ReadsLL => (low <= ll' /\ ll' <= high)
        /\ ReadsHH => (low <= hh' /\ hh' <= high)]_vars

\* C18 witness: a call on an array of length 5 has returned, elements were
\* moved, and smaller values stand below the median index, larger ones above.
C18_Witness ==
  /\ qpc = "done"
  /\ Len(arr0) = 5
  /\ arr # arr0
  /\ At(arr, 0) < At(arr, 2)
  /\ At(arr, 4) > At(arr, 2)
  /\ ~PartitionedAround(arr0, 2)

=============================================================================
